---------------------------- MODULE Spec2Model ----------------------------
(***************************************************************************)
(* Model of match_jsons.py: extraction of PDF texts (with a pickle cache), *)
(* fuzzy matching of every JSON record against the PDF-text table, and the *)
(* CSV export.  Texts are sequences of one-character strings; a dict is a  *)
(* sequence of <<key, value>> pairs in insertion order.                    *)
(***************************************************************************)
EXTENDS Integers, Sequences, FiniteSets, TLC

\* ------------------------------------------------------------------ bounds
\* Largest number of entries in one JSON record file.
MaxItems == 2

\* ------------------------------------------------------ program constants
Threshold == 80
Window == 50
FallbackLen == 100
\* fuzz.partial_ratio returns a float in [0, 100]; scores are kept in
\* fixed point, ScoreScale units per point.
ScoreScale == 100

None == "None"
NL == "\n"
SP == " "

\* -------------------------------------------------------------- text ops
Min(a, b) == IF a < b THEN a ELSE b
Max(a, b) == IF a > b THEN a ELSE b

\* str.lower on one character
LowerChar(c) == CASE c = "A" -> "a" [] c = "B" -> "b" [] c = "X" -> "x" [] OTHER -> c

lower(t) == [i \in 1..Len(t) |-> LowerChar(t[i])]

\* text[lo:hi] for 0 <= lo
Slice(t, lo, hi) == SubSeq(t, lo + 1, Min(hi, Len(t)))

\* t.replace("\n", " ")
replace_newlines(t) == [i \in 1..Len(t) |-> IF t[i] = NL THEN SP ELSE t[i]]

\* str.find: lowest 0-based index of sub in t, -1 when absent
find(t, sub) ==
    LET Starts == {i \in 0..(Len(t) - Len(sub)) : SubSeq(t, i + 1, i + Len(sub)) = sub}
    IN  IF Starts = {} THEN -1 ELSE CHOOSE i \in Starts : \A j \in Starts : i <= j

RECURSIVE JoinFrom(_, _)
JoinFrom(pages, i) ==
    IF i > Len(pages) THEN <<>>
    ELSE IF i = Len(pages) THEN pages[i]
    ELSE pages[i] \o <<NL>> \o JoinFrom(pages, i + 1)

\* "\n".join(text)
join(pages) == JoinFrom(pages, 1)

Rep(c, n) == [i \in 1..n |-> c]

\* ------------------------------------------------- rapidfuzz partial_ratio
\* One row of the longest-common-subsequence table: row[j] for j in 1..Len(b),
\* column 0 being 0.
RECURSIVE LcsRow(_, _, _, _)
LcsRow(ch, b, prev, cur) ==
    LET j == Len(cur) + 1
        diag == IF j = 1 THEN 0 ELSE prev[j - 1]
        left == IF j = 1 THEN 0 ELSE cur[j - 1]
    IN  IF j > Len(b) THEN cur
        ELSE LcsRow(ch, b, prev,
                    Append(cur, IF ch = b[j] THEN diag + 1 ELSE Max(prev[j], left)))

RECURSIVE LcsRows(_, _, _, _)
LcsRows(a, b, i, prev) ==
    IF i > Len(a) THEN prev
    ELSE LcsRows(a, b, i + 1, LcsRow(a[i], b, prev, <<>>))

Lcs(a, b) ==
    IF Len(a) = 0 \/ Len(b) = 0 THEN 0
    ELSE LcsRows(a, b, 1, [j \in 1..Len(b) |-> 0])[Len(b)]

\* fuzz.ratio: normalized InDel similarity, 100 * 2*LCS / (len1 + len2)
ratio(a, b) ==
    IF Len(a) + Len(b) = 0 THEN 100 * ScoreScale
    ELSE (200 * ScoreScale * Lcs(a, b)) \div (Len(a) + Len(b))

\* The alignments of a needle of length m inside hay: the prefixes shorter
\* than m, every window of length m, and the suffixes shorter than m.
Windows(m, hay) ==
    LET n == Len(hay)
    IN  {SubSeq(hay, 1, i) : i \in 1..(m - 1)}
        \cup {SubSeq(hay, i, i + m - 1) : i \in 1..(n - m + 1)}
        \cup {SubSeq(hay, i, n) : i \in (n - m + 2)..n}

SetMax(S) == CHOOSE x \in S : \A y \in S : y <= x

PartialShort(needle, hay) ==
    SetMax({ratio(needle, w) : w \in Windows(Len(needle), hay)})

partial_ratio(s1, s2) ==
    IF Len(s1) = 0 \/ Len(s2) = 0
    THEN (IF Len(s1) = Len(s2) THEN 100 * ScoreScale ELSE 0)
    ELSE IF Len(s1) < Len(s2) THEN PartialShort(s1, s2)
    ELSE IF Len(s2) < Len(s1) THEN PartialShort(s2, s1)
    ELSE Max(PartialShort(s1, s2), PartialShort(s2, s1))

\* ------------------------------------------------------------ dict helpers
\* A dict is a sequence of <<key, value>> pairs, keys distinct, in insertion
\* order (the iteration order of a Python dict).
Keys(d) == {d[i][1] : i \in 1..Len(d)}

Get(d, k) == d[CHOOSE i \in 1..Len(d) : d[i][1] = k][2]

\* d[k] = v: a new key is appended, an existing key keeps its position
Put(d, k, v) ==
    IF k \in Keys(d)
    THEN [i \in 1..Len(d) |-> IF d[i][1] = k THEN <<k, v>> ELSE d[i]]
    ELSE Append(d, <<k, v>>)

\* --------------------------------------------------------------- the files
VARIABLES pdf_dir, json_dir, cache_file, cache_writable, csv_file,
          pc, pdf_texts, futures, pending, results

vars == <<pdf_dir, json_dir, cache_file, cache_writable, csv_file,
          pc, pdf_texts, futures, pending, results>>

\* os.listdir(PDF_DIR) filtered to *.pdf, in listing order
pdf_files == [i \in 1..Len(pdf_dir) |-> pdf_dir[i][1]]

\* os.listdir(JSON_DIR) filtered to *.json, in listing order
json_files == [i \in 1..Len(json_dir) |-> json_dir[i][1]]

Range(s) == {s[i] : i \in 1..Len(s)}

\* ------------------------------------------------------- extract_pdf_text
\* pdfplumber.open raises on a file that is no readable PDF
ExtractRaises(pdf_path) == ~Get(pdf_dir, pdf_path).ok

extract_pdf_text(pdf_path) == join(Get(pdf_dir, pdf_path).pages)

\* -------------------------------------------------------- load_json_texts
\* json.load raises on a file that is no valid JSON
LoadRaises(json_path) == ~Get(json_dir, json_path).ok

\* mutant: entries with an empty original_text are dropped too
RECURSIVE FieldsFrom_DropEmpty(_, _)
FieldsFrom_DropEmpty(data, i) ==
    IF i > Len(data) THEN <<>>
    ELSE IF data[i].has_text /\ data[i].original_text # <<>>
    THEN <<data[i].original_text>> \o FieldsFrom_DropEmpty(data, i + 1)
    ELSE FieldsFrom_DropEmpty(data, i + 1)

RECURSIVE FieldsFrom(_, _)
FieldsFrom(data, i) ==
    IF i > Len(data) THEN <<>>
    ELSE IF data[i].has_text THEN <<data[i].original_text>> \o FieldsFrom(data, i + 1)
    ELSE FieldsFrom(data, i + 1)

load_json_texts(json_path) == FieldsFrom(Get(json_dir, json_path).data, 1)

\* ------------------------------------------------------ match_json_to_pdf
IsHit(orig, text) == partial_ratio(orig, text) > Threshold * ScoreScale

\* mutant: the window start is not clamped at 0, so a negative start counts
\* from the end of the text
Excerpt_Unclamped(orig, text) ==
    LET idx == find(lower(text), lower(orig))
        lo == IF idx - Window < 0 THEN Max(Len(text) + idx - Window, 0) ELSE idx - Window
    IN  IF idx # -1
        THEN replace_newlines(Slice(text, lo, idx + Len(orig) + Window))
        ELSE replace_newlines(Slice(text, 0, FallbackLen))

\* lines 48-52: the excerpt stored for a PDF
Excerpt(orig, text) ==
    LET idx == find(lower(text), lower(orig))
    IN  IF idx # -1
        THEN replace_newlines(Slice(text, Max(idx - Window, 0), idx + Len(orig) + Window))
        ELSE replace_newlines(Slice(text, 0, FallbackLen))

\* mutant: empty snippets are not skipped
ScoreStep_NoSkip(acc, pdf_name, text, orig) ==
    IF IsHit(orig, text)
    THEN [scores |-> Put(acc.scores, pdf_name,
                         (IF pdf_name \in Keys(acc.scores)
                          THEN Get(acc.scores, pdf_name) ELSE 0) + 1),
          best_matches |-> IF pdf_name \in Keys(acc.best_matches)
                           THEN acc.best_matches
                           ELSE Put(acc.best_matches, pdf_name, Excerpt(orig, text))]
    ELSE acc

\* mutant: scores[pdf_name] = 1 in place of += 1
ScoreStep_Assign(acc, pdf_name, text, orig) ==
    IF orig = <<>> THEN acc
    ELSE IF IsHit(orig, text)
    THEN [scores |-> Put(acc.scores, pdf_name, 1),
          best_matches |-> IF pdf_name \in Keys(acc.best_matches)
                           THEN acc.best_matches
                           ELSE Put(acc.best_matches, pdf_name, Excerpt(orig, text))]
    ELSE acc

\* lines 41-53: the body of the inner loop
ScoreStep(acc, pdf_name, text, orig) ==
    IF orig = <<>> THEN acc
    ELSE IF IsHit(orig, text)
    THEN [scores |-> Put(acc.scores, pdf_name,
                         (IF pdf_name \in Keys(acc.scores)
                          THEN Get(acc.scores, pdf_name) ELSE 0) + 1),
          best_matches |-> IF pdf_name \in Keys(acc.best_matches)
                           THEN acc.best_matches
                           ELSE Put(acc.best_matches, pdf_name, Excerpt(orig, text))]
    ELSE acc

RECURSIVE InnerLoop(_, _, _, _, _)
InnerLoop(acc, pdf_name, text, json_texts, i) ==
    IF i > Len(json_texts) THEN acc
    ELSE InnerLoop(ScoreStep(acc, pdf_name, text, json_texts[i]),
                   pdf_name, text, json_texts, i + 1)

\* lines 39-53: for pdf_name, text in pdf_texts.items()
RECURSIVE ScoreLoop(_, _, _, _)
ScoreLoop(acc, table, json_texts, k) ==
    IF k > Len(table) THEN acc
    ELSE ScoreLoop(InnerLoop(acc, table[k][1], table[k][2], json_texts, 1),
                   table, json_texts, k + 1)

\* mutant: the first key of scores, whatever its count
MaxKey_FirstKey(scores) == scores[1][1]

\* max(scores, key=scores.get): the first key, in iteration order, whose
\* value is maximal
MaxKey(scores) ==
    LET best == CHOOSE i \in 1..Len(scores) :
                    /\ \A j \in 1..Len(scores) : scores[j][2] <= scores[i][2]
                    /\ \A j \in 1..(i - 1) : scores[j][2] < scores[i][2]
    IN  scores[best][1]

\* line 59: the evidence pairs rebuilt over every loaded snippet
RECURSIVE MatchedPairs(_, _, _, _)
MatchedPairs(json_texts, text, snippet, i) ==
    IF i > Len(json_texts) THEN <<>>
    ELSE (IF IsHit(json_texts[i], text) THEN <<(<<json_texts[i], snippet>>)>> ELSE <<>>)
         \o MatchedPairs(json_texts, text, snippet, i + 1)

match_json_to_pdf(json_file, table) ==
    LET json_texts == load_json_texts(json_file)
        acc == ScoreLoop([scores |-> <<>>, best_matches |-> <<>>], table, json_texts, 1)
    IN  IF acc.scores = <<>>
        THEN <<json_file, None, 0, <<>> >>
        ELSE LET best_pdf == MaxKey(acc.scores)
             IN  <<json_file, best_pdf, Get(acc.scores, best_pdf),
                   MatchedPairs(json_texts, Get(table, best_pdf),
                                Get(acc.best_matches, best_pdf), 1)>>

process_json(json_file, table) == match_json_to_pdf(json_file, table)

\* ------------------------------------------------------------ CSV export
Header == <<"json_file", "matched_pdf", "match_count", "json_text", "pdf_snippet">>

\* csv.writer writes None as the empty string
CsvCell(v) == IF v = None THEN "" ELSE v

\* mutant: a result without evidence gets no row
RowsOf_NoPlaceholder(res) ==
    [i \in 1..Len(res[4]) |->
        <<res[1], CsvCell(res[2]), res[3], res[4][i][1], res[4][i][2]>>]

\* lines 118-122: the rows of one result
RowsOf(res) ==
    IF res[4] # <<>>
    THEN [i \in 1..Len(res[4]) |->
             <<res[1], CsvCell(res[2]), res[3], res[4][i][1], res[4][i][2]>>]
    ELSE << <<res[1], CsvCell(res[2]), res[3], <<>>, <<>> >> >>

RECURSIVE RowsFrom(_, _)
RowsFrom(rs, i) ==
    IF i > Len(rs) THEN <<>> ELSE RowsOf(rs[i]) \o RowsFrom(rs, i + 1)

CsvRows(rs) == <<Header>> \o RowsFrom(rs, 1)

\* ------------------------------------------------------------------ inputs
PdfNames == <<"a.pdf", "b.pdf">>
JsonNames == <<"r.json", "s.json">>

Pdf(pages) == [ok |-> TRUE, pages |-> pages]
BadPdf == [ok |-> FALSE, pages |-> <<>>]
PdfAB == Pdf(<< <<"a", "b">> >>)
PdfEmpty == Pdf(<< <<>> >>)
\* two pages: "a" and 60 "x", then "b" and 50 "y"
PdfLong == Pdf(<< <<"a">> \o Rep("x", Window + 10), <<"b">> \o Rep("y", Window) >>)

Item(t) == [has_text |-> TRUE, original_text |-> t]
NoField == [has_text |-> FALSE, original_text |-> <<>>]
Json(data) == [ok |-> TRUE, data |-> data]
BadJson == [ok |-> FALSE, data |-> <<>>]

\* the listings of a directory: the files named names[1..n], in name order
Listings(names, files, n) ==
    {[i \in 1..n |-> <<names[i], f[i]>>] : f \in [1..n -> files]}

SeqsUpTo(S, n) == UNION {[1..k -> S] : k \in 0..n}

CacheAbsent == [state |-> "absent", data |-> <<>>]
CacheCorrupt == [state |-> "corrupt", data |-> <<>>]
Cached(d) == [state |-> "ok", data |-> d]

\* what a run over directory d extracts, when the tasks complete in the
\* order given by the permutation p of 1..Len(d)
RECURSIVE ExtractedFrom(_, _, _)
ExtractedFrom(d, p, i) ==
    IF i > Len(p) THEN <<>>
    ELSE (IF d[p[i]][2].ok THEN << <<d[p[i]][1], join(d[p[i]][2].pages)>> >> ELSE <<>>)
         \o ExtractedFrom(d, p, i + 1)

Perms(n) == {p \in [1..n -> 1..n] : \A i, j \in 1..n : i # j => p[i] # p[j]}

\* the caches earlier runs over d can have left
EarlierCaches(d) == {Cached(ExtractedFrom(d, p, 1)) : p \in Perms(Len(d))}

\* Few short files, every state of the cache: the scheduling cases.
SmallPdfDirs == UNION {Listings(PdfNames, {BadPdf, PdfAB, PdfEmpty}, n) : n \in 0..2}
SmallJsonDirs ==
    UNION {Listings(JsonNames,
                    {BadJson, Json(<< Item(<<"a">>) >>), Json(<< Item(<<>>), NoField >>)},
                    n) : n \in 0..2}

\* One record file with every entry list up to MaxItems, no cache: the
\* matching cases.
ItemKinds ==
    {NoField, Item(<<>>), Item(<<"a">>), Item(<<"b">>), Item(<<"x", "a", "b">>),
     Item(<<"a", "x", "x", "x", "b">>), Item(<<"a", "x", "x", "x", "X">>)}
RichPdfDirs ==
    {<< >>,
     << <<"a.pdf", PdfAB>> >>,
     << <<"a.pdf", PdfAB>>, <<"b.pdf", PdfAB>> >>,
     << <<"a.pdf", PdfLong>>, <<"b.pdf", PdfAB>> >>,
     << <<"a.pdf", PdfEmpty>>, <<"b.pdf", PdfLong>> >>}
RichJsonDirs == {<< <<"r.json", Json(data)>> >> : data \in SeqsUpTo(ItemKinds, MaxItems)}

Init ==
    /\ \/ /\ pdf_dir \in SmallPdfDirs
          /\ json_dir \in SmallJsonDirs
          /\ cache_file \in {CacheAbsent, CacheCorrupt} \cup EarlierCaches(pdf_dir)
          /\ cache_writable \in BOOLEAN
       \/ /\ pdf_dir \in RichPdfDirs
          /\ json_dir \in RichJsonDirs
          /\ cache_file = CacheAbsent
          /\ cache_writable = TRUE
    /\ csv_file = <<>>
    /\ pc = "start"
    /\ pdf_texts = <<>>
    /\ futures = {}
    /\ pending = {}
    /\ results = <<>>

\* ----------------------------------------------------------------- main()
\* lines 71-74: the cache exists and unpickles
LoadCache ==
    /\ pc = "start"
    /\ cache_file.state = "ok"
    /\ pdf_texts' = cache_file.data
    /\ pc' = "list_json"
    /\ UNCHANGED <<pdf_dir, json_dir, cache_file, cache_writable, csv_file,
                   futures, pending, results>>

\* lines 71-73: the cache exists and pickle.load raises; nothing catches it
LoadCacheRaises ==
    /\ pc = "start"
    /\ cache_file.state = "corrupt"
    /\ pc' = "aborted"
    /\ UNCHANGED <<pdf_dir, json_dir, cache_file, cache_writable, csv_file,
                   pdf_texts, futures, pending, results>>

\* lines 75-81: no cache; one extraction task is submitted per PDF
SubmitExtraction ==
    /\ pc = "start"
    /\ cache_file.state = "absent"
    /\ pdf_texts' = <<>>
    /\ futures' = Range(pdf_files)
    /\ pending' = Range(pdf_files)
    /\ pc' = "extract"
    /\ UNCHANGED <<pdf_dir, json_dir, cache_file, cache_writable, csv_file, results>>

\* mutant: the exception of a failed extraction leaves the loop
ExtractDone_Propagates(fname) ==
    /\ pc = "extract"
    /\ fname \in pending
    /\ pdf_texts' = IF ExtractRaises(fname) THEN pdf_texts
                    ELSE Put(pdf_texts, fname, extract_pdf_text(fname))
    /\ pending' = pending \ {fname}
    /\ pc' = IF ExtractRaises(fname) THEN "aborted" ELSE pc
    /\ UNCHANGED <<pdf_dir, json_dir, cache_file, cache_writable, csv_file,
                   futures, results>>

\* lines 82-88: as_completed yields the future of fname
ExtractDone(fname) ==
    /\ pc = "extract"
    /\ fname \in pending
    /\ pdf_texts' = IF ExtractRaises(fname) THEN pdf_texts
                    ELSE Put(pdf_texts, fname, extract_pdf_text(fname))
    /\ pending' = pending \ {fname}
    /\ UNCHANGED <<pdf_dir, json_dir, cache_file, cache_writable, csv_file,
                   pc, futures, results>>

\* mutant: the cache is written while extraction tasks are still running
SaveCache_Early ==
    /\ pc = "extract"
    /\ cache_writable
    /\ cache_file' = Cached(pdf_texts)
    /\ pc' = "list_json"
    /\ UNCHANGED <<pdf_dir, json_dir, cache_writable, csv_file,
                   pdf_texts, futures, pending, results>>

\* lines 91-93: every extraction future has been yielded
SaveCache ==
    /\ pc = "extract"
    /\ pending = {}
    /\ cache_writable
    /\ cache_file' = Cached(pdf_texts)
    /\ pc' = "list_json"
    /\ UNCHANGED <<pdf_dir, json_dir, cache_writable, csv_file,
                   pdf_texts, futures, pending, results>>

\* line 91: open(CACHE_FILE, "wb") raises; nothing catches it
SaveCacheRaises ==
    /\ pc = "extract"
    /\ pending = {}
    /\ ~cache_writable
    /\ pc' = "aborted"
    /\ UNCHANGED <<pdf_dir, json_dir, cache_file, cache_writable, csv_file,
                   pdf_texts, futures, pending, results>>

\* lines 96-101: one matching task is submitted per JSON file
SubmitMatching ==
    /\ pc = "list_json"
    /\ results' = <<>>
    /\ futures' = Range(json_files)
    /\ pending' = Range(json_files)
    /\ pc' = "match"
    /\ UNCHANGED <<pdf_dir, json_dir, cache_file, cache_writable, csv_file, pdf_texts>>

\* lines 102-111: as_completed yields the future of json_file
MatchDone(json_file) ==
    /\ pc = "match"
    /\ json_file \in pending
    /\ results' = IF LoadRaises(json_file) THEN results
                  ELSE Append(results, process_json(json_file, pdf_texts))
    /\ pending' = pending \ {json_file}
    /\ UNCHANGED <<pdf_dir, json_dir, cache_file, cache_writable, csv_file,
                   pc, pdf_texts, futures>>

\* lines 114-122: every matching future has been yielded
WriteCsv ==
    /\ pc = "match"
    /\ pending = {}
    /\ csv_file' = CsvRows(results)
    /\ pc' = "done"
    /\ UNCHANGED <<pdf_dir, json_dir, cache_file, cache_writable,
                   pdf_texts, futures, pending, results>>

Next ==
    \/ LoadCache
    \/ LoadCacheRaises
    \/ SubmitExtraction
    \/ \E fname \in Range(PdfNames) : ExtractDone(fname)
    \/ SaveCache
    \/ SaveCacheRaises
    \/ SubmitMatching
    \/ \E json_file \in Range(JsonNames) : MatchDone(json_file)
    \/ WriteCsv

Spec == Init /\ [][Next]_vars

\* ================================================================== claims
\* the snippets the record of a result was loaded with
SnippetsOf(res) == load_json_texts(res[1])

\* the number of non-empty snippets scoring above the threshold against text
HitCount(json_texts, text) ==
    Cardinality({i \in 1..Len(json_texts) :
                    json_texts[i] # <<>> /\ IsHit(json_texts[i], text)})

Results == Range(results)

\* C1: a record with at least one non-empty snippet scoring above the
\* threshold against some PDF of the table gets a best PDF of the table whose
\* hit count no other PDF exceeds, and the returned count is that hit count.
C1_BestIsMax ==
    \A res \in Results :
        (\E p \in 1..Len(pdf_texts) : HitCount(SnippetsOf(res), pdf_texts[p][2]) > 0)
        => /\ res[2] \in Keys(pdf_texts)
           /\ res[3] = HitCount(SnippetsOf(res), Get(pdf_texts, res[2]))
           /\ \A p \in 1..Len(pdf_texts) :
                  HitCount(SnippetsOf(res), pdf_texts[p][2]) <= res[3]

\* C1 witness: the best PDF is not the first of the table, and another PDF
\* has fewer hits, but some.
C1_Witness ==
    \E res \in Results :
        /\ res[2] \in Keys(pdf_texts)
        /\ res[2] # pdf_texts[1][1]
        /\ \E p \in 1..Len(pdf_texts) :
              /\ HitCount(SnippetsOf(res), pdf_texts[p][2]) > 0
              /\ HitCount(SnippetsOf(res), pdf_texts[p][2]) < res[3]

\* C2: a record none of whose snippets scores above the threshold against
\* any PDF of the table (no snippets, an empty table, or no hit) gets no best
\* PDF, count 0 and no evidence.
C2_NoHitNoBest ==
    \A res \in Results :
        (\A p \in 1..Len(pdf_texts) : HitCount(SnippetsOf(res), pdf_texts[p][2]) = 0)
        => res = <<res[1], None, 0, <<>> >>

\* C2 witness: a record with a non-empty snippet, a non-empty table, no hit.
C2_Witness ==
    \E res \in Results :
        /\ \E i \in 1..Len(SnippetsOf(res)) : SnippetsOf(res)[i] # <<>>
        /\ pdf_texts # <<>>
        /\ res[2] = None

\* C10: a result with a best PDF has as many evidence pairs as its match
\* count, and the count is at least 1.
C10_CountIsPairs ==
    \A res \in Results : res[2] # None => res[3] = Len(res[4]) /\ res[3] >= 1

\* C10 witness: a hit beside an empty snippet, which only the scoring loop skips.
C10_Witness ==
    \E res \in Results :
        /\ res[2] # None
        /\ res[3] >= 1
        /\ \E i \in 1..Len(SnippetsOf(res)) : SnippetsOf(res)[i] = <<>>

\* the excerpt rule of the specification, for snippet s and text t: the
\* window of Window characters either side of the first case-insensitive
\* occurrence of s in t, else the first FallbackLen characters of t
Occurs(s, t, i) ==
    /\ i + Len(s) <= Len(t)
    /\ \A k \in 1..Len(s) : LowerChar(t[i + k]) = LowerChar(s[k])

ExcerptRule(s, t) ==
    LET at == {i \in 0..Len(t) : Occurs(s, t, i)}
        idx == CHOOSE i \in at : \A j \in at : i <= j
        lo == IF at = {} THEN 1
              ELSE IF idx > Window THEN idx - Window + 1 ELSE 1
        hi == IF at = {} THEN Min(FallbackLen, Len(t))
              ELSE Min(idx + Len(s) + Window, Len(t))
    IN  [k \in 1..(hi - lo + 1) |-> IF t[lo + k - 1] = NL THEN SP ELSE t[lo + k - 1]]

\* the snippets of a result's record that hit its best PDF, in record order
HitSnippets(res) ==
    SelectSeq(SnippetsOf(res), LAMBDA s : IsHit(s, Get(pdf_texts, res[2])))

\* C8 as stated: every evidence pair carries the excerpt of its own snippet.
C8_OwnExcerpt ==
    \A res \in Results :
        res[2] # None =>
            /\ Len(res[4]) = Len(HitSnippets(res))
            /\ \A i \in 1..Len(res[4]) :
                  /\ res[4][i][1] = HitSnippets(res)[i]
                  /\ res[4][i][2] = ExcerptRule(res[4][i][1], Get(pdf_texts, res[2]))

\* C8 amended: every snippet that hits the best PDF yields one evidence pair,
\* in record order, and every pair of a result carries the excerpt of the
\* first snippet of the record that hits the best PDF.
C8_FirstExcerpt ==
    \A res \in Results :
        res[2] # None =>
            /\ Len(res[4]) = Len(HitSnippets(res))
            /\ \A i \in 1..Len(res[4]) :
                  /\ res[4][i][1] = HitSnippets(res)[i]
                  /\ res[4][i][2] = ExcerptRule(HitSnippets(res)[1], Get(pdf_texts, res[2]))

\* C8 witness: two evidence pairs whose snippets have different excerpts of
\* their own, the first a window cut on both sides of a text longer than it.
C8_Witness ==
    \E res \in Results :
        /\ res[2] # None
        /\ Len(res[4]) = 2
        /\ ExcerptRule(res[4][1][1], Get(pdf_texts, res[2]))
              # ExcerptRule(res[4][2][1], Get(pdf_texts, res[2]))
        /\ Len(res[4][1][2]) = Window + Len(res[4][1][1]) + Window

\* C9 as stated: no record is loaded with an empty snippet.
C9_NoEmptyLoaded ==
    \A i \in 1..Len(json_dir) :
        json_dir[i][2].ok => <<>> \notin Range(load_json_texts(json_dir[i][1]))

\* C9 amended: the loader drops exactly the entries without original_text and
\* keeps the others, empty ones too, in order; a record whose loaded snippets
\* are all empty gets no best PDF.
C9_EmptySkippedInScoring ==
    /\ \A i \in 1..Len(json_dir) :
          json_dir[i][2].ok =>
              LET data == json_dir[i][2].data
                  with == {k \in 1..Len(data) : data[k].has_text}
                  loaded == load_json_texts(json_dir[i][1])
              IN  /\ Len(loaded) = Cardinality(with)
                  /\ \A k \in with :
                        loaded[Cardinality({m \in with : m <= k})] = data[k].original_text
    /\ \A res \in Results :
          (\A k \in 1..Len(SnippetsOf(res)) : SnippetsOf(res)[k] = <<>>)
          => res = <<res[1], None, 0, <<>> >>

\* C9 witness: a record loaded with empty snippets only, matched against a
\* table that holds a PDF with empty text.
C9_Witness ==
    \E res \in Results :
        /\ SnippetsOf(res) # <<>>
        /\ \A k \in 1..Len(SnippetsOf(res)) : SnippetsOf(res)[k] = <<>>
        /\ \E p \in 1..Len(pdf_texts) : pdf_texts[p][2] = <<>>
        /\ res[2] = None

\* the rows a result takes in the report
RowCount(res) == Max(Len(res[4]), 1)

\* the number of report rows before those of results[i]
RECURSIVE RowsBefore(_)
RowsBefore(i) == IF i = 1 THEN 1 ELSE RowsBefore(i - 1) + RowCount(results[i - 1])

\* C6: the report is the header row, then for every collected result, in
\* collection order, one row per evidence pair, or one row with empty snippet
\* and excerpt when it has none.
C6_ReportRows ==
    pc = "done" =>
        /\ Len(csv_file) = RowsBefore(Len(results) + 1)
        /\ csv_file[1] = Header
        /\ \A i \in 1..Len(results) :
              LET res == results[i]
                  at == RowsBefore(i)
                  pdf == IF res[2] = None THEN "" ELSE res[2]
              IN  IF Len(res[4]) >= 1
                  THEN \A j \in 1..Len(res[4]) :
                          csv_file[at + j] = <<res[1], pdf, res[3], res[4][j][1], res[4][j][2]>>
                  ELSE csv_file[at + 1] = <<res[1], pdf, res[3], <<>>, <<>> >>

\* C6 witness: a report of a result without evidence followed by one with.
C6_Witness ==
    /\ pc = "done"
    /\ Len(results) = 2
    /\ results[1][4] = <<>>
    /\ results[2][4] # <<>>
    /\ Len(csv_file) = 3

\* the table a run over pdf_dir builds when its extraction tasks complete in
\* submission order
ListingOrderTable == ExtractedFrom(pdf_dir, [i \in 1..Len(pdf_dir) |-> i], 1)

\* C5 as stated: the best PDF of a record does not depend on the order in which
\* the extraction tasks complete, so it is the one chosen when they complete in
\* submission order.
C5_SameChoiceEveryOrder ==
    \A res \in Results : res[2] = match_json_to_pdf(res[1], ListingOrderTable)[2]

\* C7 as stated: an unreadable cache makes the run extract every PDF, and a
\* cache that cannot be written lets the run go on to the matching.
C7_CacheFailuresTolerated ==
    [][/\ (pc = "start" /\ cache_file.state = "corrupt")
            => (pc' = "extract" /\ futures' = Range(pdf_files))
       /\ (pc = "extract" /\ pending = {} /\ ~cache_writable)
            => pc' = "list_json"]_vars

GoodPdfs == {pdf_dir[i][1] : i \in {k \in 1..Len(pdf_dir) : pdf_dir[k][2].ok}}
GoodJsons == {json_dir[i][1] : i \in {k \in 1..Len(json_dir) : json_dir[k][2].ok}}

\* C3: whichever extraction and matching tasks raise, in whatever order the
\* tasks complete: the table holds exactly the completed PDFs whose extraction
\* succeeded, results holds exactly one result per completed record whose
\* matching succeeded, a completing task takes no other task out of the
\* pending ones and does not end the phase, only a cache failure aborts the
\* run, and once every matching task has completed the report is written.
C3_Isolation ==
    /\ [](pc = "extract" =>
             /\ Keys(pdf_texts) = (futures \ pending) \cap GoodPdfs
             /\ Len(pdf_texts) = Cardinality(Keys(pdf_texts))
             /\ \A k \in 1..Len(pdf_texts) :
                    pdf_texts[k][2] = join(Get(pdf_dir, pdf_texts[k][1]).pages))
    /\ [](pc \in {"match", "done"} =>
             /\ {results[k][1] : k \in 1..Len(results)} = (futures \ pending) \cap GoodJsons
             /\ Len(results) = Cardinality((futures \ pending) \cap GoodJsons))
    /\ [](pc = "done" => pending = {} /\ csv_file # <<>>)
    /\ [][/\ (pc \in {"extract", "match"} /\ pending # {})
               => /\ pc' = pc
                  /\ pending' \subseteq pending
                  /\ Cardinality(pending \ pending') = 1
          /\ pc \in {"list_json", "match"} => pdf_texts' = pdf_texts
          /\ pc' = "aborted"
               => \/ pc = "start" /\ cache_file.state = "corrupt"
                  \/ pc = "extract" /\ pending = {} /\ ~cache_writable
          /\ (pc = "match" /\ pending = {}) => (pc' = "done" /\ results' = results)]_vars

\* C3 witness: a finished run in which one extraction and one matching task
\* raised and one of each succeeded.
C3_Witness ==
    /\ pc = "done"
    /\ Len(pdf_dir) = 2 /\ Cardinality(GoodPdfs) = 1
    /\ Len(json_dir) = 2 /\ Cardinality(GoodJsons) = 1
    /\ Len(pdf_texts) = 1
    /\ Len(results) = 1
    /\ Len(csv_file) = 2

\* C4: a cache present at the start is loaded as the table and never written,
\* and no extraction task is started; with no cache a task is submitted for
\* every PDF found, and the cache is written once, when every extraction task
\* has completed, with exactly the successful extractions, before any
\* matching task is submitted.
C4_CacheBinary ==
    /\ [](pc = "extract" => cache_file = CacheAbsent /\ futures = Range(pdf_files))
    /\ [](pc \in {"list_json", "match", "done"} => cache_file = Cached(pdf_texts))
    /\ [][/\ (pc = "start" /\ cache_file.state = "ok")
               => (pc' = "list_json" /\ pdf_texts' = cache_file.data /\ futures' = {})
          /\ (pc = "start" /\ cache_file.state = "absent") => pc' = "extract"
          /\ cache_file.state # "absent" => cache_file' = cache_file
          /\ cache_file' # cache_file
               => /\ pc = "extract" /\ pending = {}
                  /\ pc' = "list_json"
                  /\ cache_file' = Cached(pdf_texts)
                  /\ Keys(pdf_texts) = GoodPdfs
                  /\ \A k \in 1..Len(pdf_texts) :
                         pdf_texts[k][2] = join(Get(pdf_dir, pdf_texts[k][1]).pages)]_vars

\* C4 witness: a fresh run has written the cache, one extraction having
\* failed, and no matching task is submitted yet.
C4_Witness ==
    /\ pc = "list_json"
    /\ futures = Range(pdf_files)
    /\ Len(pdf_dir) = 2 /\ Cardinality(GoodPdfs) = 1
    /\ cache_file = Cached(pdf_texts)
    /\ Len(pdf_texts) = 1

=============================================================================
